---- MODULE Spec2Model ----
(***************************************************************************)
(* A model of the simplestore resource handlers                            *)
(* (client/resources/simplestore/handlers.go): the store-wide mutex, the   *)
(* per-user cart file, the per-user order directory and the handlers       *)
(* handleNotFound, handleIndex, handleProduct, handleAddToCart,            *)
(* handleCart, handlePlaceOrder and handleOrders, each run by one of       *)
(* NumProcs request goroutines.                                            *)
(*                                                                         *)
(* Money: a float64 dollar amount of the program (Product.Price,           *)
(* Config.ShipCharge) is written here as the integer number of hundredths  *)
(* of its decimal literal (9.99 is 999); Int64Times100 is what the code's  *)
(* int64(x * 100) makes of it.                                             *)
(***************************************************************************)
EXTENDS Integers, Sequences, FiniteSets, TLC

\* ------------------------------------------------------------ bounds
NumProcs == 2
MaxReqs == 3
MaxFails == 1

Procs == 1..NumProcs
Users == {"u1", "u2"}
CatalogSKUs == {"A", "B"}
PathSKUs == {"A", "B", "X"}
ShipCharges == {0, 115}
Rates == {0, 2000}
PayTypes == {"None", "OnChain", "LN"}

\* s.c.PublicID(): the store's operator.
PublicID == "u1"

\* ------------------------------------------------------------ pure helpers

\* int64(x * 100) for a float64 x whose decimal literal is h/100, 0 <= h < 1000:
\* the IEEE-754 product is just below the integer for the h listed, and the
\* conversion truncates.
Int64Times100(h) ==
    IF h \in {29, 57, 58, 113, 114, 115, 116, 201, 203, 205, 207, 226, 228, 230,
              232, 251, 253, 255, 402, 406, 410, 414, 427, 431, 435, 439, 452,
              456, 460, 464, 477, 481, 485, 489, 502, 506, 510, 803, 804, 812,
              820, 828, 829, 837, 845, 853, 854, 862, 870, 878, 879, 887, 895,
              903, 904, 912, 920, 928, 929, 937, 945, 953, 954, 962, 970, 978,
              979, 987, 995}
    THEN h - 1 ELSE h

\* s.products: the catalog, loaded at startup.
products ==
    [s \in CatalogSKUs |-> [SKU |-> s, Price |-> IF s = "A" THEN 999 ELSE 0]]

NoProd == [SKU |-> "", Price |-> 0]

\* var cart Cart (the zero value).
EmptyCart == [Items |-> <<>>, Updated |-> 0]

NoOrder ==
    [User |-> "", Cart |-> EmptyCart, ID |-> 0, Status |-> "", PlacedTS |-> 0,
     ShipCharge |-> 0, ExchangeRate |-> 0, PayType |-> "None", Invoice |-> ""]

NoMsg == [items |-> <<>>, itemTotal |-> 0, total |-> 0, shipLine |-> FALSE,
          dcrLine |-> FALSE, pay |-> ""]

NoData == [tmpl |-> "", ctx |-> ""]

NoReq == [kind |-> "", uid |-> "", sku |-> ""]

NoLoc ==
    [prod |-> NoProd, cart |-> EmptyCart, id |-> 0, order |-> NoOrder,
     msg |-> NoMsg, preIDs |-> {}, hadItems |-> FALSE, ioFail |-> "",
     provFail |-> FALSE, unreadable |-> {}]

NoLast ==
    [kind |-> "", uid |-> "", sku |-> "", status |-> "", data |-> NoData,
     err |-> "", ioFail |-> "", provFail |-> FALSE, id |-> 0,
     unreadable |-> {}]

SetMax(S) == IF S = {} THEN 0 ELSE CHOOSE m \in S : \A x \in S : x <= m

\* The quantity of sku in the cart, summed over all its items.
RECURSIVE QtySeq(_, _)
QtySeq(items, sku) ==
    IF items = <<>> THEN 0
    ELSE (IF Head(items).Product.SKU = sku THEN Head(items).Quantity ELSE 0)
         + QtySeq(Tail(items), sku)

VARIABLES
    cfg,         \* s.cfg and s.lnpc, fixed at construction
    mtx,         \* s.mtx: 0 when free, else the goroutine holding it
    cartFile,    \* <root>/carts/<uid>: user -> Cart, for the users with a file
    orderFiles,  \* <root>/orders/<uid>/order-<id>.json: user -> (id -> Order)
    pc,          \* where each request goroutine is
    req,         \* the request each goroutine serves
    loc,         \* the handler's local variables
    last,        \* the (reply, error) of the most recent return
    nreq,        \* requests received so far
    clock,       \* the calls of time.Now() so far
    nfail,       \* failures of storage, renderer and user lookup so far
    cbLog,       \* the calls of cfg.OrderPlaced, in order
    placed,      \* per user, the ids of the order files written, in order
    adds         \* per user and SKU, cart writes by add-to-cart since the cart was last removed

vars == <<cfg, mtx, cartFile, orderFiles, pc, req, loc, last, nreq, clock,
          nfail, cbLog, placed, adds>>

store == <<cartFile, orderFiles>>
ghosts == <<cbLog, placed, adds>>

\* Every configuration of the store: the shipping charge, the pay type,
\* whether cfg.ExchangeRateProvider, s.lnpc and cfg.OrderPlaced are set.
Configs ==
    [ShipCharge : ShipCharges, PayType : PayTypes,
     HasRate : BOOLEAN, HasLN : BOOLEAN, HasCB : BOOLEAN]

\* The on-chain store with an exchange rate, with and without a shipping
\* charge and a callback.
OnChainConfigs ==
    {c \in Configs : c.PayType = "OnChain" /\ c.HasRate /\ ~c.HasLN}

\* An order file left by an earlier run of the store.
PriorOrder ==
    [User |-> "u1",
     Cart |-> [Items |-> <<[Product |-> products["A"], Quantity |-> 1]>>,
               Updated |-> 0],
     ID |-> 1, Status |-> "placed", PlacedTS |-> 0, ShipCharge |-> 0,
     ExchangeRate |-> 0, PayType |-> "None", Invoice |-> ""]

\* The order directories the store starts with: none, or one with user u1's
\* first order.
PriorStores ==
    {[u \in Users |-> [i \in {} |-> NoOrder]],
     [u \in Users |-> IF u = "u1" THEN (1 :> PriorOrder)
                      ELSE [i \in {} |-> NoOrder]]}

InitWith(C) ==
    /\ cfg \in C
    /\ mtx = 0
    /\ cartFile = [u \in {} |-> EmptyCart]
    /\ orderFiles \in PriorStores
    /\ pc = [p \in Procs |-> "idle"]
    /\ req = [p \in Procs |-> NoReq]
    /\ loc = [p \in Procs |-> NoLoc]
    /\ last = NoLast
    /\ nreq = 0
    /\ clock = 0
    /\ nfail = 0
    /\ cbLog = <<>>
    /\ placed = [u \in Users |->
                    [k \in 1..Cardinality(DOMAIN orderFiles[u]) |-> k]]
    /\ adds = [u \in Users |-> [s \in PathSKUs |-> 0]]

Init == InitWith(OnChainConfigs)

InitAll == InitWith(Configs)

\* ------------------------------------------------------------ plumbing

LockNoWait(p) == mtx' = p

\* s.mtx.Lock(): blocks until the mutex is free.
Lock(p) == mtx = 0 /\ mtx' = p

UnlockForgotten(p) == UNCHANGED mtx

\* s.mtx.Unlock()
Unlock(p) == mtx' = 0

\* A failure of storage, of the renderer or of the user lookup.
Fails == nfail < MaxFails /\ nfail' = nfail + 1

Works == UNCHANGED nfail

\* return reply, err
Return(p, status, data, err, l) ==
    /\ pc' = [pc EXCEPT ![p] = "idle"]
    /\ req' = [req EXCEPT ![p] = NoReq]
    /\ loc' = [loc EXCEPT ![p] = NoLoc]
    /\ last' = [kind |-> req[p].kind, uid |-> req[p].uid, sku |-> req[p].sku,
                status |-> status, data |-> data, err |-> err,
                ioFail |-> l.ioFail, provFail |-> l.provFail, id |-> l.id,
                unreadable |-> l.unreadable]

ReturnOk(p, data, l) == Return(p, "Ok", data, "", l)

ReturnErr(p, err, l) == Return(p, "Error", NoData, err, l)

Goto(p, label, l) ==
    /\ pc' = [pc EXCEPT ![p] = label]
    /\ loc' = [loc EXCEPT ![p] = l]
    /\ UNCHANGED <<req, last>>

\* A request arrives and is dispatched to its handler, on the first goroutine
\* that is free. handleNotFound and handleProduct do not read the user id.
Start(p) ==
    /\ pc[p] = "idle"
    /\ \A q \in Procs : q < p => pc[q] # "idle"
    /\ nreq < MaxReqs
    /\ \E kind \in {"notfound", "index", "product", "cart", "addtocart",
                    "placeorder", "orders"},
          uid \in Users, sku \in PathSKUs :
          /\ (kind \notin {"product", "addtocart"}) => sku = "A"
          /\ (kind \in {"notfound", "product"}) => uid = PublicID
          /\ req' = [req EXCEPT ![p] =
                        [kind |-> kind, uid |-> uid,
                         sku |-> IF kind \in {"product", "addtocart"}
                                 THEN sku ELSE ""]]
          /\ pc' = [pc EXCEPT ![p] = kind]
    /\ nreq' = nreq + 1
    /\ last' = NoLast
    /\ UNCHANGED <<cfg, mtx, store, loc, clock, nfail, ghosts>>

\* ------------------------------------------------------------ catalog

InCatalogAlways(sku) == TRUE

\* prod, ok := s.products[sku]
InCatalog(sku) == sku \in DOMAIN products

\* s.products[sku]: nil for a key that is not in the map.
Lookup(sku) == IF sku \in DOMAIN products THEN products[sku] ELSE NoProd

\* ------------------------------------------------------------ handleNotFound

handleNotFound(p) ==
    /\ pc[p] = "notfound"
    /\ Return(p, "NotFound", NoData, "", loc[p])
    /\ UNCHANGED <<cfg, mtx, store, nreq, clock, nfail, ghosts>>

\* ------------------------------------------------------------ handleIndex

IndexLock(p) ==
    /\ pc[p] = "index"
    /\ Lock(p)
    /\ Goto(p, "index_render", loc[p])
    /\ UNCHANGED <<cfg, store, nreq, clock, nfail, ghosts>>

IndexRender(p) ==
    /\ pc[p] = "index_render"
    /\ Unlock(p)
    /\ \/ Fails /\ ReturnErr(p, "render", loc[p])
       \/ Works /\ ReturnOk(p, [tmpl |-> "index",
                                ctx |-> [Products |-> products,
                                         IsAdmin |-> req[p].uid = PublicID]],
                            loc[p])
    /\ UNCHANGED <<cfg, store, nreq, clock, ghosts>>

\* ------------------------------------------------------------ handleProduct

ProductLock(p) ==
    /\ pc[p] = "product"
    /\ Lock(p)
    /\ Goto(p, "product_lookup", loc[p])
    /\ UNCHANGED <<cfg, store, nreq, clock, nfail, ghosts>>

\* prod := s.products[request.Path[1]]; s.mtx.Unlock()
ProductLookup(p) ==
    /\ pc[p] = "product_lookup"
    /\ Unlock(p)
    /\ Goto(p, "product_render",
            [loc[p] EXCEPT !.prod = Lookup(req[p].sku)])
    /\ UNCHANGED <<cfg, store, nreq, clock, nfail, ghosts>>

ProdMissingNever(prod) == FALSE

\* prod == nil
ProdMissing(prod) == prod = NoProd

ProductRender(p) ==
    /\ pc[p] = "product_render"
    /\ IF ProdMissing(loc[p].prod)
       THEN /\ Works
            /\ Return(p, "NotFound", NoData, "", loc[p])
       ELSE \/ Fails /\ ReturnErr(p, "render", loc[p])
            \/ Works /\ ReturnOk(p, [tmpl |-> "product", ctx |-> loc[p].prod],
                                 loc[p])
    /\ UNCHANGED <<cfg, mtx, store, nreq, clock, ghosts>>

\* ------------------------------------------------------------ jsonfile (cart)

\* jsonfile.Read(fname, &cart) of a file that exists and is readable.
CartExists(u) == u \in DOMAIN cartFile

\* ------------------------------------------------------------ handleCart

CartLock(p) ==
    /\ pc[p] = "cart"
    /\ Lock(p)
    /\ Goto(p, "cart_read", loc[p])
    /\ UNCHANGED <<cfg, store, nreq, clock, nfail, ghosts>>

\* err := jsonfile.Read(fname, &cart); s.mtx.Unlock(); the error is looked at
\* after the unlock.
CartRead(p) ==
    /\ pc[p] = "cart_read"
    /\ Unlock(p)
    /\ \/ /\ CartExists(req[p].uid)
          /\ Fails
          /\ Goto(p, "cart_render", [loc[p] EXCEPT !.ioFail = "read"])
       \/ /\ Works
          /\ Goto(p, "cart_render",
                  [loc[p] EXCEPT !.cart = IF CartExists(req[p].uid)
                                          THEN cartFile[req[p].uid]
                                          ELSE EmptyCart])
    /\ UNCHANGED <<cfg, store, nreq, clock, ghosts>>

CartRender(p) ==
    /\ pc[p] = "cart_render"
    /\ IF loc[p].ioFail = "read"
       THEN Works /\ ReturnErr(p, "read", loc[p])
       ELSE \/ Fails /\ ReturnErr(p, "render", loc[p])
            \/ Works /\ ReturnOk(p, [tmpl |-> "cart", ctx |-> loc[p].cart],
                                 loc[p])
    /\ UNCHANGED <<cfg, mtx, store, nreq, clock, ghosts>>

\* ------------------------------------------------------------ jsonfile (write)

\* jsonfile.Write(fname, &cart, s.log): the whole document replaces the file.
WriteCart(u, cart) == cartFile' = (u :> cart) @@ cartFile

\* jsonfile.RemoveIfExists(cartFname)
RemoveIfExists(u) ==
    cartFile' = [v \in DOMAIN cartFile \ {u} |-> cartFile[v]]

\* orderFnamePattern.Last(orderDir).ID: the highest id among the order files,
\* 0 when there is none.
LastID(u) == SetMax(DOMAIN orderFiles[u])

\* jsonfile.Write(orderFname, order, s.log)
WriteOrder(u, id, order) ==
    orderFiles' = [orderFiles EXCEPT ![u] = (id :> order) @@ @]

\* ------------------------------------------------------------ handleAddToCart

HasItem(items, sku) == \E i \in 1..Len(items) : items[i].Product.SKU = sku

FirstItem(items, sku) ==
    CHOOSE i \in 1..Len(items) :
        /\ items[i].Product.SKU = sku
        /\ \A j \in 1..(i - 1) : items[j].Product.SKU # sku

AddItemAlwaysAppends(cart, prod) ==
    [cart EXCEPT !.Items = Append(@, [Product |-> prod, Quantity |-> 1])]

\* The loop over cart.Items and the append that follows it.
AddItem(cart, prod) ==
    IF HasItem(cart.Items, prod.SKU)
    THEN [cart EXCEPT !.Items[FirstItem(cart.Items, prod.SKU)].Quantity = @ + 1]
    ELSE [cart EXCEPT !.Items = Append(@, [Product |-> prod, Quantity |-> 1])]

AddLock(p) ==
    /\ pc[p] = "addtocart"
    /\ Lock(p)
    /\ Goto(p, "add_read", loc[p])
    /\ UNCHANGED <<cfg, store, nreq, clock, nfail, ghosts>>

\* The catalog lookup and the read of the cart file.
AddRead(p) ==
    /\ pc[p] = "add_read"
    /\ LET u == req[p].uid
           sku == req[p].sku
       IN IF ~InCatalog(sku)
          THEN /\ Works
               /\ Unlock(p)
               /\ ReturnErr(p, "product does not exist", loc[p])
          ELSE \/ /\ CartExists(u)
                  /\ Fails
                  /\ Unlock(p)
                  /\ ReturnErr(p, "read", [loc[p] EXCEPT !.ioFail = "read"])
               \/ /\ Works
                  /\ UNCHANGED mtx
                  /\ Goto(p, "add_write",
                          [loc[p] EXCEPT
                             !.prod = Lookup(sku),
                             !.cart = IF CartExists(u) THEN cartFile[u]
                                      ELSE EmptyCart])
    /\ UNCHANGED <<cfg, store, nreq, clock, ghosts>>

\* The update of the cart, cart.Updated = time.Now() and the write.
AddWrite(p) ==
    /\ pc[p] = "add_write"
    /\ LET u == req[p].uid
           cart == [AddItem(loc[p].cart, loc[p].prod) EXCEPT
                      !.Updated = clock + 1]
       IN \/ /\ Fails
             /\ Unlock(p)
             /\ ReturnErr(p, "write", [loc[p] EXCEPT !.ioFail = "write"])
             /\ UNCHANGED <<cartFile, adds>>
          \/ /\ Works
             /\ WriteCart(u, cart)
             /\ adds' = [adds EXCEPT ![u][req[p].sku] = @ + 1]
             /\ UNCHANGED mtx
             /\ Goto(p, "add_render", [loc[p] EXCEPT !.cart = cart])
    /\ clock' = clock + 1
    /\ UNCHANGED <<cfg, orderFiles, nreq, cbLog, placed>>

AddRender(p) ==
    /\ pc[p] = "add_render"
    /\ Unlock(p)
    /\ \/ Fails /\ ReturnErr(p, "render", loc[p])
       \/ Works /\ ReturnOk(p, [tmpl |-> "addtocart",
                                ctx |-> [Product |-> loc[p].prod,
                                         Cart |-> loc[p].cart]], loc[p])
    /\ UNCHANGED <<cfg, store, nreq, clock, ghosts>>

\* ------------------------------------------------------------ handlePlaceOrder

\* Cart.TotalCents(): the sum over the items of quantity times unit price, in
\* cents.
RECURSIVE TotalCents(_)
TotalCents(items) ==
    IF items = <<>> THEN 0
    ELSE Head(items).Quantity * Head(items).Product.Price
         + TotalCents(Tail(items))

\* totalItemUSDCents of each item, for the lines of the message.
ItemLines(items) ==
    [i \in 1..Len(items) |->
        items[i].Quantity * Int64Times100(items[i].Product.Price)]

\* totalUSDCents after the shipping branch.
GrandTotal(itemCents, shipCharge) ==
    IF itemCents > 0 /\ shipCharge > 0
    THEN itemCents + Int64Times100(shipCharge) ELSE itemCents

\* Order.TotalDCR(): the grand total at the order's exchange rate, in
\* thousandths of a coin; 0 without a positive rate.
TotalDCR(order) ==
    IF order.ExchangeRate <= 0 THEN 0
    ELSE (GrandTotal(TotalCents(order.Cart.Items), order.ShipCharge) * 1000)
         \div order.ExchangeRate

ResolvePaymentKeepsType(c, order, totalDCR, addrOk, invOk) ==
    [PayType |-> IF c.HasRate /\ order.ExchangeRate > 0 /\ totalDCR # 0
                 THEN c.PayType ELSE "None",
     Invoice |-> "", pay |-> "",
     provFail |-> c.HasRate /\ order.ExchangeRate > 0 /\ totalDCR # 0
                  /\ \/ c.PayType = "OnChain" /\ ~addrOk
                     \/ c.PayType = "LN" /\ ~(c.HasLN /\ invOk)]

ResolvePaymentIgnoresTotal(c, order, totalDCR, addrOk, invOk) ==
    LET none == [PayType |-> "None", Invoice |-> "", pay |-> "",
                 provFail |-> FALSE]
    IN CASE ~c.HasRate -> none
         [] order.ExchangeRate <= 0 -> none
         [] c.PayType = "OnChain" ->
                IF addrOk
                THEN [PayType |-> "OnChain", Invoice |-> "addr",
                      pay |-> "addr", provFail |-> FALSE]
                ELSE [none EXCEPT !.provFail = TRUE]
         [] c.PayType = "LN" ->
                IF c.HasLN /\ invOk
                THEN [PayType |-> "LN", Invoice |-> "lninv",
                      pay |-> "lninv", provFail |-> FALSE]
                ELSE [none EXCEPT !.provFail = TRUE]
         [] OTHER -> [none EXCEPT !.pay = "contact"]

\* The switch on the pay type: what it leaves in order.PayType and
\* order.Invoice, the payment line of the message, and whether a payment
\* collaborator failed (or, for LN, is not set up).
ResolvePayment(c, order, totalDCR, addrOk, invOk) ==
    LET none == [PayType |-> "None", Invoice |-> "", pay |-> "",
                 provFail |-> FALSE]
    IN CASE ~c.HasRate -> none
         [] order.ExchangeRate <= 0 -> none
         [] totalDCR = 0 -> none
         [] c.PayType = "OnChain" ->
                IF addrOk
                THEN [PayType |-> "OnChain", Invoice |-> "addr",
                      pay |-> "addr", provFail |-> FALSE]
                ELSE [none EXCEPT !.provFail = TRUE]
         [] c.PayType = "LN" ->
                IF c.HasLN /\ invOk
                THEN [PayType |-> "LN", Invoice |-> "lninv",
                      pay |-> "lninv", provFail |-> FALSE]
                ELSE [none EXCEPT !.provFail = TRUE]
         [] OTHER -> [none EXCEPT !.pay = "contact"]

PlaceLock(p) ==
    /\ pc[p] = "placeorder"
    /\ Lock(p)
    /\ Goto(p, "po_read",
            [loc[p] EXCEPT !.preIDs = DOMAIN orderFiles[req[p].uid]])
    /\ UNCHANGED <<cfg, store, nreq, clock, nfail, ghosts>>

NoItemsNever(cart) == FALSE

\* len(cart.Items) == 0
NoItems(cart) == Len(cart.Items) = 0

\* The read of the cart file and the empty-cart reply.
PlaceRead(p) ==
    /\ pc[p] = "po_read"
    /\ LET u == req[p].uid
           cart == IF CartExists(u) THEN cartFile[u] ELSE EmptyCart
       IN \/ /\ CartExists(u)
             /\ Fails
             /\ Unlock(p)
             /\ ReturnErr(p, "read", [loc[p] EXCEPT !.ioFail = "read"])
          \/ /\ Works
             /\ IF NoItems(cart)
                THEN /\ Unlock(p)
                     /\ ReturnOk(p, [tmpl |-> "text",
                                     ctx |-> "No items in order"], loc[p])
                ELSE /\ UNCHANGED mtx
                     /\ Goto(p, "po_last",
                             [loc[p] EXCEPT !.cart = cart, !.hadItems = TRUE])
    /\ UNCHANGED <<cfg, store, nreq, clock, ghosts>>

NextIDReusesLast(lastID) == IF lastID = 0 THEN 1 ELSE lastID

NextIDAlwaysOne(lastID) == 1

\* id := lastID.ID + 1
NextID(lastID) == lastID + 1

NewOrderWithoutCart(uid, cart, id, now, shipCharge) ==
    [User |-> uid, Cart |-> EmptyCart, ID |-> id, Status |-> "placed",
     PlacedTS |-> now, ShipCharge |-> shipCharge, ExchangeRate |-> 0,
     PayType |-> "None", Invoice |-> ""]

\* order := &Order{User: uid, Cart: cart, ID: OrderID(id), Status:
\* StatusPlaced, PlacedTS: time.Now(), ShipCharge: s.cfg.ShipCharge}
NewOrder(uid, cart, id, now, shipCharge) ==
    [User |-> uid, Cart |-> cart, ID |-> id, Status |-> "placed",
     PlacedTS |-> now, ShipCharge |-> shipCharge, ExchangeRate |-> 0,
     PayType |-> "None", Invoice |-> ""]

\* The scan of the order directory and the construction of the order.
PlaceLast(p) ==
    /\ pc[p] = "po_last"
    /\ LET u == req[p].uid
           id == NextID(LastID(u))
       IN \/ /\ Fails
             /\ Unlock(p)
             /\ ReturnErr(p, "last", [loc[p] EXCEPT !.ioFail = "last"])
             /\ UNCHANGED clock
          \/ /\ Works
             /\ UNCHANGED mtx
             /\ clock' = clock + 1
             /\ Goto(p, "po_build",
                     [loc[p] EXCEPT
                        !.id = id,
                        !.order = NewOrder(u, loc[p].cart, id, clock + 1,
                                           cfg.ShipCharge)])
    /\ UNCHANGED <<cfg, store, nreq, ghosts>>

OrderPlacedNever(c, log, order, msg) == log

\* if s.cfg.OrderPlaced != nil { s.cfg.OrderPlaced(order, b.String()) }
OrderPlaced(c, log, order, msg) ==
    IF c.HasCB THEN Append(log, [order |-> order, msg |-> msg]) ELSE log

\* The user lookup, the message, the exchange rate, the payment switch and
\* the call of cfg.OrderPlaced.
PlaceBuild(p) ==
    /\ pc[p] = "po_build"
    /\ \/ /\ Fails
          /\ Unlock(p)
          /\ ReturnErr(p, "unknown user", loc[p])
          /\ UNCHANGED cbLog
       \/ /\ Works
          /\ UNCHANGED mtx
          /\ \E rate \in Rates, addrOk \in BOOLEAN, invOk \in BOOLEAN :
                LET items == loc[p].order.Cart.Items
                    itemCents == TotalCents(items)
                    total == GrandTotal(itemCents, cfg.ShipCharge)
                    order1 == [loc[p].order EXCEPT
                                 !.ExchangeRate = IF cfg.HasRate THEN rate
                                                  ELSE 0]
                    totalDCR == TotalDCR(order1)
                    pay == ResolvePayment(cfg, order1, totalDCR, addrOk, invOk)
                    order2 == [order1 EXCEPT !.PayType = pay.PayType,
                                             !.Invoice = pay.Invoice]
                    msg == [items |-> ItemLines(items),
                            itemTotal |-> itemCents,
                            total |-> total,
                            shipLine |-> itemCents > 0 /\ cfg.ShipCharge > 0,
                            dcrLine |-> totalDCR > 0,
                            pay |-> pay.pay]
                IN /\ Goto(p, "po_write",
                           [loc[p] EXCEPT !.order = order2, !.msg = msg,
                                          !.provFail = pay.provFail])
                   /\ cbLog' = OrderPlaced(cfg, cbLog, order2, msg)
    /\ UNCHANGED <<cfg, store, nreq, clock, placed, adds>>

\* The write of the order file.
PlaceWrite(p) ==
    /\ pc[p] = "po_write"
    /\ LET u == req[p].uid
       IN \/ /\ Fails
             /\ Unlock(p)
             /\ ReturnErr(p, "write", [loc[p] EXCEPT !.ioFail = "write"])
             /\ UNCHANGED <<orderFiles, placed>>
          \/ /\ Works
             /\ UNCHANGED mtx
             /\ WriteOrder(u, loc[p].id, loc[p].order)
             /\ placed' = [placed EXCEPT ![u] = Append(@, loc[p].id)]
             /\ Goto(p, "po_remove", loc[p])
    /\ UNCHANGED <<cfg, cartFile, nreq, clock, cbLog, adds>>

ClearCartSkipped(u) == UNCHANGED cartFile

ClearCartKeepsItems(u) == cartFile' = [cartFile EXCEPT ![u].Updated = 0]

ClearCartOfAll(u) == cartFile' = [v \in {} |-> EmptyCart]

\* Clear cart.
ClearCart(u) == RemoveIfExists(u)

RemoveErrorIgnored(p, l) == UNCHANGED mtx /\ Goto(p, "po_render", l)

\* if err := jsonfile.RemoveIfExists(cartFname); err != nil { return nil, err }
RemoveError(p, l) == Unlock(p) /\ ReturnErr(p, "remove", l)

\* The removal of the cart file.
PlaceRemove(p) ==
    /\ pc[p] = "po_remove"
    /\ LET u == req[p].uid
       IN \/ /\ Fails
             /\ RemoveError(p, [loc[p] EXCEPT !.ioFail = "remove"])
             /\ UNCHANGED <<cartFile, adds>>
          \/ /\ Works
             /\ UNCHANGED mtx
             /\ ClearCart(u)
             /\ adds' = [adds EXCEPT ![u] = [s \in PathSKUs |-> 0]]
             /\ Goto(p, "po_render", loc[p])
    /\ UNCHANGED <<cfg, orderFiles, nreq, clock, cbLog, placed>>

PlaceRender(p) ==
    /\ pc[p] = "po_render"
    /\ Unlock(p)
    /\ \/ Fails /\ ReturnErr(p, "render", loc[p])
       \/ Works /\ ReturnOk(p, [tmpl |-> "orderplaced", ctx |-> loc[p].order],
                            loc[p])
    /\ UNCHANGED <<cfg, store, nreq, clock, ghosts>>

\* ------------------------------------------------------------ handleOrders

OrdersLock(p) ==
    /\ pc[p] = "orders"
    /\ Lock(p)
    /\ Goto(p, "orders_list", loc[p])
    /\ UNCHANGED <<cfg, store, nreq, clock, nfail, ghosts>>

ReadOrdersKeepsUnread(files, bad) ==
    [i \in DOMAIN files |-> IF i \in bad THEN NoOrder ELSE files[i]]

\* The loop over the directory entries: an order file that jsonfile.Read
\* cannot read (those in bad) is skipped, the others are collected.
ReadOrders(files, bad) == [i \in DOMAIN files \ bad |-> files[i]]

\* os.ReadDir, the read of each order file, the rendering.
OrdersList(p) ==
    /\ pc[p] = "orders_list"
    /\ Unlock(p)
    /\ LET u == req[p].uid
           files == orderFiles[u]
       IN \/ /\ DOMAIN files # {}
             /\ Fails
             /\ ReturnErr(p, "readdir", [loc[p] EXCEPT !.ioFail = "readdir"])
          \/ /\ Fails
             /\ ReturnErr(p, "render", loc[p])
          \/ /\ Works
             /\ \E bad \in SUBSET (DOMAIN files) :
                   ReturnOk(p, [tmpl |-> "orders",
                                ctx |-> ReadOrders(files, bad)],
                            [loc[p] EXCEPT !.unreadable = bad])
    /\ UNCHANGED <<cfg, store, nreq, clock, ghosts>>

\* ------------------------------------------------------------ specification

\* One step of goroutine p.
Step(p) ==
    \/ Start(p)
    \/ handleNotFound(p)
    \/ IndexLock(p) \/ IndexRender(p)
    \/ ProductLock(p) \/ ProductLookup(p) \/ ProductRender(p)
    \/ CartLock(p) \/ CartRead(p) \/ CartRender(p)
    \/ AddLock(p) \/ AddRead(p) \/ AddWrite(p) \/ AddRender(p)
    \/ PlaceLock(p) \/ PlaceRead(p) \/ PlaceLast(p) \/ PlaceBuild(p)
    \/ PlaceWrite(p) \/ PlaceRemove(p) \/ PlaceRender(p)
    \/ OrdersLock(p) \/ OrdersList(p)

Next == \E p \in Procs : Step(p)

\* Requests served one at a time.
NextSeq == Step(1)

\* Concurrent requests against the on-chain store.
Spec == Init /\ [][Next]_vars

\* Requests one at a time against every configuration of the store.
SpecConfigs == InitAll /\ [][NextSeq]_vars

\* A step of the handler goroutine p serves its request with.
Handle(p) == pc[p] # "idle" /\ Step(p)

\* The Go scheduler runs every runnable goroutine, storage, renderer, payment
\* providers and callback return, and sync.Mutex hands the lock to a goroutine
\* that keeps waiting for it (starvation mode): a handler that can take a step
\* again and again takes it.
Fairness == \A p \in Procs : SF_vars(Handle(p))

\* The on-chain store with a callback and no shipping charge.
InitFair == InitWith({c \in OnChainConfigs : c.ShipCharge = 0 /\ c.HasCB})

\* Concurrent requests against that store, served to completion.
SpecFair == InitFair /\ [][Next]_vars /\ Fairness

\* ------------------------------------------------------------ properties

\* The goroutine holds the store lock between its Lock and its Unlock.
InCS(p) ==
    pc[p] \in {"index_render", "product_lookup", "cart_read", "add_read",
               "add_write", "add_render", "po_read", "po_last", "po_build",
               "po_write", "po_remove", "po_render", "orders_list"}

\* Goroutine p takes a step.
Steps(p) == pc'[p] # pc[p] \/ loc'[p] # loc[p]

ItemsOf(u) == IF CartExists(u) THEN cartFile[u].Items ELSE <<>>

OnePerSKU(items) ==
    \A i, j \in 1..Len(items) :
        items[i].Product.SKU = items[j].Product.SKU => i = j

\* C1: for every user the ids of the persisted order files are exactly 1..n,
\* the k-th order file written for the user has id k (so the ids grow by one
\* from placement to placement, with no gap and no duplicate), and each file
\* holds the order of its id.
C1_OrderIds ==
    \A u \in Users :
        /\ DOMAIN orderFiles[u] = 1..Len(placed[u])
        /\ \A k \in 1..Len(placed[u]) : placed[u][k] = k
        /\ \A id \in DOMAIN orderFiles[u] : orderFiles[u][id].ID = id

\* A user with two order files, the second written by a placement of this run.
C1_Witness ==
    \E u \in Users : Len(placed[u]) >= 2 /\ orderFiles[u][2].PlacedTS > 0

C2_AddStep ==
    \A p \in Procs :
        (pc[p] = "add_write" /\ pc'[p] = "add_render") =>
            LET u == req[p].uid
                S == req[p].sku
                old == ItemsOf(u)
                new == cartFile'[u].Items
            IN /\ OnePerSKU(new)
               /\ IF HasItem(old, S)
                  THEN /\ Len(new) = Len(old)
                       /\ \A i \in 1..Len(old) :
                            new[i] = IF old[i].Product.SKU = S
                                     THEN [old[i] EXCEPT !.Quantity = @ + 1]
                                     ELSE old[i]
                  ELSE new = Append(old, [Product |-> products[S],
                                          Quantity |-> 1])

\* C2: every persisted cart has at most one item per SKU, and a write of
\* handleAddToCart for SKU S either raises the Quantity of the one item for S
\* by 1, leaving the other items and the length alone, or, when S is not in
\* the cart, appends one item for S with Quantity 1.
C2_OneItemPerSKU ==
    /\ [](\A u \in DOMAIN cartFile : OnePerSKU(cartFile[u].Items))
    /\ [][C2_AddStep]_vars

\* SKU A added twice to an empty cart: one item, Quantity 2.
C2_Witness ==
    \E u \in DOMAIN cartFile :
        cartFile[u].Items = <<[Product |-> products["A"], Quantity |-> 2]>>

C3_Step ==
    \A p \in Procs :
        LET u == req[p].uid
        IN /\ (pc[p] = "placeorder" /\ Steps(p)) =>
                  UNCHANGED <<cartFile, orderFiles, cbLog, placed>>
           /\ (pc[p] = "po_read" /\ Steps(p) /\ ItemsOf(u) = <<>>) =>
                  /\ pc'[p] = "idle"
                  /\ last'.kind = "placeorder" /\ last'.uid = u
                  /\ last'.status = "Ok" /\ last'.err = ""
                  /\ last'.data.tmpl = "text"
                  /\ last'.data.ctx = "No items in order"
                  /\ UNCHANGED <<cartFile, orderFiles, cbLog, placed>>

\* C3: a handlePlaceOrder that finds the user's cart absent or without items
\* returns the Ok reply "No items in order" and leaves the cart files, the
\* order files and the calls of the order-placed callback as they were.
C3_EmptyCartPlacement == [][C3_Step]_vars

\* An empty-cart placement has returned in a store with a callback, which was
\* not called.
C3_Witness ==
    /\ last.kind = "placeorder" /\ last.status = "Ok"
    /\ last.data.tmpl = "text"
    /\ cfg.HasCB /\ cbLog = <<>>
    /\ ~CartExists(last.uid)

C4_Step ==
    \A p \in Procs :
        (pc[p] = "po_render" /\ pc'[p] = "idle" /\ last'.status = "Ok") =>
            LET u == req[p].uid
                new == SetMax(loc[p].preIDs) + 1
            IN /\ loc[p].hadItems
               /\ ~(u \in DOMAIN cartFile')
               /\ new \notin loc[p].preIDs
               /\ DOMAIN orderFiles'[u] = loc[p].preIDs \cup {new}
               /\ last'.id = new
               /\ orderFiles'[u][new] = last'.data.ctx

\* C4: when handlePlaceOrder returns its Ok reply for a non-empty cart, the
\* user's cart file does not exist and the user's order files are those that
\* existed when the handler took the lock plus exactly one new file, whose id
\* is the highest earlier id plus 1 (1 when there was none).
C4_PlacementEffect == [][C4_Step]_vars

\* A successful placement that created order 2 after order 1.
C4_Witness ==
    /\ last.kind = "placeorder" /\ last.status = "Ok"
    /\ last.data.tmpl = "orderplaced"
    /\ last.id = 2
    /\ DOMAIN orderFiles[last.uid] = {1, 2}
    /\ ~CartExists(last.uid)

\* C5: at most one handler is between Lock and Unlock at a time, and it is
\* the holder of the mutex; and no add-to-cart update is lost: the Quantity
\* of SKU S in a user's cart is the number of add-to-cart(S) writes by that
\* user since the user's cart was last removed by a placement.
C5_Serialized ==
    /\ \A p, q \in Procs : (InCS(p) /\ InCS(q)) => p = q
    /\ \A p \in Procs : InCS(p) => mtx = p
    /\ \A u \in Users, S \in PathSKUs : QtySeq(ItemsOf(u), S) = adds[u][S]

\* The second add of A by a user is being served by goroutine 2 while
\* goroutine 1 waits for the lock with another mutating request.
C5_Witness ==
    /\ pc[2] = "add_render"
    /\ adds[req[2].uid]["A"] = 2
    /\ pc[1] \in {"addtocart", "placeorder"}
    /\ req[1].uid = req[2].uid

\* C6: a failure of a payment collaborator (the address provider, the invoice
\* provider, or no LN provider set up) does not end the placement: the
\* handler goes on to the write with PayType None and no Invoice, the order
\* file it writes is that order, the cart is removed after it, and an error
\* the handler returns is one of the write, the removal or the rendering.
C6_PaymentFailureNotFatal ==
    /\ \A p \in Procs :
          loc[p].provFail =>
              LET u == req[p].uid
              IN /\ pc[p] \in {"po_write", "po_remove", "po_render"}
                 /\ loc[p].order.PayType = "None"
                 /\ loc[p].order.Invoice = ""
                 /\ pc[p] \in {"po_remove", "po_render"} =>
                        /\ loc[p].id \in DOMAIN orderFiles[u]
                        /\ orderFiles[u][loc[p].id] = loc[p].order
                 /\ pc[p] = "po_render" => ~CartExists(u)
    /\ last.provFail =>
          /\ last.err \in {"", "write", "remove", "render"}
          /\ last.status = "Ok" =>
                /\ last.id \in DOMAIN orderFiles[last.uid]
                /\ orderFiles[last.uid][last.id].PayType = "None"
                /\ orderFiles[last.uid][last.id].Invoice = ""
                /\ ~CartExists(last.uid)

\* The address provider failed in an on-chain store and the placement
\* returned its Ok reply.
C6_Witness ==
    /\ last.kind = "placeorder" /\ last.provFail /\ last.status = "Ok"
    /\ cfg.PayType = "OnChain"
    /\ orderFiles[last.uid][last.id].PayType = "None"

C7_Step ==
    \A p \in Procs :
        (req[p].kind = "placeorder" /\ pc'[p] = "idle" /\ pc[p] # "idle"
         /\ last'.ioFail \in {"read", "last", "write"}) =>
            /\ orderFiles' = orderFiles
            /\ DOMAIN orderFiles[req[p].uid] = loc[p].preIDs

C7_WholeOrders ==
    \A u \in Users : \A id \in DOMAIN orderFiles[u] :
        LET o == orderFiles[u][id]
        IN /\ o.ID = id /\ o.User = u /\ o.Status = "placed"
           /\ Len(o.Cart.Items) > 0

\* C7: a handlePlaceOrder in which the cart read, the scan of the order
\* directory, the order write or the cart removal fails returns an error and
\* no reply; every order file is a whole order; and a failure of the read,
\* the scan or the write leaves the order files as they were.
C7_IOFailureAborts ==
    /\ []((last.kind = "placeorder"
           /\ last.ioFail \in {"read", "last", "write", "remove"}) =>
             (last.status = "Error" /\ last.err = last.ioFail
              /\ last.data.tmpl = ""))
    /\ []C7_WholeOrders
    /\ [][C7_Step]_vars

\* The write of the order file failed and the placement returned an error.
C7_Witness ==
    /\ last.kind = "placeorder" /\ last.ioFail = "write"
    /\ last.status = "Error"

C8_Step ==
    \A p \in Procs :
        /\ (pc[p] = "addtocart" /\ Steps(p)) => UNCHANGED cartFile
        /\ (pc[p] = "add_read" /\ Steps(p) /\ req[p].sku \notin CatalogSKUs) =>
              /\ pc'[p] = "idle"
              /\ last'.kind = "addtocart" /\ last'.sku = req[p].sku
              /\ last'.status = "Error"
              /\ last'.err = "product does not exist"
              /\ last'.data.tmpl = ""
              /\ cartFile' = cartFile

\* C8: handleAddToCart for a SKU that is not in the catalog returns the error
\* "product does not exist" and no reply, and no cart file is created or
\* changed (its items and its Updated stamp stay as they were).
C8_UnknownSKU == [][C8_Step]_vars

\* An add of the unknown SKU X was refused for a user who has a cart.
C8_Witness ==
    /\ last.kind = "addtocart" /\ last.sku = "X"
    /\ last.err = "product does not exist"
    /\ CartExists(last.uid)

\* C9: the grand total of a placement is the sum over the items of quantity
\* times unit price in cents, plus the shipping charge in cents exactly when
\* the shipping charge and the item total are both > 0.
C9_GrandTotal ==
    \A p \in Procs :
        pc[p] = "po_write" =>
            LET items == loc[p].order.Cart.Items
                itemCents == TotalCents(items)
            IN loc[p].msg.total =
                   itemCents + (IF cfg.ShipCharge > 0 /\ itemCents > 0
                                THEN cfg.ShipCharge ELSE 0)

C10_Step ==
    \A p \in Procs :
        (req[p].kind \in {"notfound", "product"} /\ Steps(p)) =>
            UNCHANGED <<cartFile, orderFiles, cbLog>>

C10_Replies ==
    /\ last.kind = "notfound" =>
          (last.status = "NotFound" /\ last.err = "" /\ last.data.tmpl = "")
    /\ (last.kind = "product" /\ last.sku \notin CatalogSKUs) =>
          (last.status = "NotFound" /\ last.err = "" /\ last.data.tmpl = "")
    /\ (last.kind = "product" /\ last.sku \in CatalogSKUs) =>
          \/ /\ last.status = "Ok" /\ last.err = ""
             /\ last.data.tmpl = "product"
             /\ last.data.ctx = products[last.sku]
          \/ last.status = "Error" /\ last.err = "render"

\* C10: handleNotFound returns the NotFound reply and no error; handleProduct
\* for a SKU that is not in the catalog returns that reply, without
\* rendering; for a SKU in the catalog it never answers NotFound: it returns
\* the Ok reply with the rendered product, or the renderer's error; neither
\* handler changes a cart or an order file.
C10_NotFoundIsAReply == []C10_Replies /\ [][C10_Step]_vars

\* The product page of the unknown SKU X was answered NotFound.
C10_Witness ==
    /\ last.kind = "product" /\ last.sku = "X"
    /\ last.status = "NotFound" /\ last.err = ""

\* C11: an order file, once written, stays as it is: every step of every
\* handler leaves each existing order file of each user in place with the
\* content it had.
C11_OrderFilesImmutable ==
    [][\A u \in Users : \A id \in DOMAIN orderFiles[u] :
          /\ id \in DOMAIN orderFiles'[u]
          /\ orderFiles'[u][id] = orderFiles[u][id]]_vars

\* A user with an order from an earlier run placed a second order, written
\* by this run, and the first is still there.
C11_Witness ==
    \E u \in Users :
        /\ DOMAIN orderFiles[u] = {1, 2}
        /\ orderFiles[u][1] = PriorOrder
        /\ orderFiles[u][2].PlacedTS > 0
        /\ last.kind \in {"cart", "orders", "addtocart"} /\ last.uid = u

\* What the priority list gives for configuration c, an order with its
\* exchange rate set, and the outcomes of the two payment collaborators.
C12_Expected(c, order, addrOk, invOk) ==
    IF ~c.HasRate THEN <<"None", "">>
    ELSE IF order.ExchangeRate <= 0 THEN <<"None", "">>
    ELSE IF TotalDCR(order) = 0 THEN <<"None", "">>
    ELSE IF c.PayType = "OnChain"
         THEN (IF addrOk THEN <<"OnChain", "addr">> ELSE <<"None", "">>)
    ELSE IF c.PayType = "LN"
         THEN (IF c.HasLN /\ invOk THEN <<"LN", "lninv">> ELSE <<"None", "">>)
    ELSE <<"None", "">>

C12_Switch ==
    \A p \in Procs :
        pc[p] = "po_build" =>
            \A rate \in Rates, addrOk \in BOOLEAN, invOk \in BOOLEAN :
                LET order1 == [loc[p].order EXCEPT
                                 !.ExchangeRate = IF cfg.HasRate THEN rate
                                                  ELSE 0]
                    pay == ResolvePayment(cfg, order1, TotalDCR(order1),
                                          addrOk, invOk)
                IN <<pay.PayType, pay.Invoice>> =
                       C12_Expected(cfg, order1, addrOk, invOk)

C12_Resolved(o) ==
    /\ o.Invoice # "" => o.PayType # "None"
    /\ o.PayType \in {"OnChain", "LN"} =>
          /\ o.PayType = cfg.PayType
          /\ cfg.HasRate /\ o.ExchangeRate > 0 /\ TotalDCR(o) > 0
          /\ o.Invoice = IF o.PayType = "OnChain" THEN "addr" ELSE "lninv"
    /\ o.PayType = "LN" => cfg.HasLN

\* C12: the pay type and the invoice the switch leaves in the order are those
\* of the first matching line of: no exchange-rate provider, rate <= 0, total
\* in coins = 0 (each: None, no invoice); on-chain: OnChain with the address
\* iff the address provider succeeds; LN: LN with the invoice iff an LN
\* provider is set up and succeeds; else None. So in the order handed to the
\* write and in every order file, an invoice comes only with a pay type other
\* than None, and OnChain or LN only when it is the configured type with a
\* positive rate and a positive total in coins.
C12_PaymentPriority ==
    /\ C12_Switch
    /\ \A p \in Procs :
          pc[p] \in {"po_write", "po_remove", "po_render"} =>
              C12_Resolved(loc[p].order)
    /\ \A u \in Users : \A id \in DOMAIN orderFiles[u] :
          C12_Resolved(orderFiles[u][id])

\* An order file with pay type LN and its invoice, in a store with an LN
\* provider.
C12_Witness ==
    /\ cfg.PayType = "LN" /\ cfg.HasLN
    /\ \E u \in Users : \E id \in DOMAIN orderFiles[u] :
          /\ orderFiles[u][id].PayType = "LN"
          /\ orderFiles[u][id].Invoice = "lninv"

C13_Step ==
    /\ \A p \in Procs :
          LET u == req[p].uid
          IN /\ (pc[p] = "po_build" /\ pc'[p] = "po_write") =>
                    /\ loc[p].hadItems /\ Len(loc[p].cart.Items) > 0
                    /\ cbLog' = IF cfg.HasCB
                                THEN Append(cbLog, [order |-> loc'[p].order,
                                                    msg |-> loc'[p].msg])
                                ELSE cbLog
                    /\ C12_Resolved(loc'[p].order)
                    /\ UNCHANGED <<cartFile, orderFiles>>
                    /\ CartExists(u)
                    /\ loc'[p].id \notin DOMAIN orderFiles[u]
             /\ (pc[p] = "po_build" /\ Steps(p) /\ pc'[p] # "po_write") =>
                    /\ pc'[p] = "idle" /\ last'.err = "unknown user"
                    /\ UNCHANGED cbLog
             /\ (pc[p] = "po_write" /\ Steps(p)) =>
                    \/ /\ pc'[p] = "po_remove"
                       /\ loc[p].id \in DOMAIN orderFiles'[u]
                       /\ orderFiles'[u][loc[p].id] = loc[p].order
                       /\ CartExists(u) /\ UNCHANGED cartFile
                    \/ /\ pc'[p] = "idle" /\ last'.ioFail = "write"
    /\ (\A p \in Procs : ~(pc[p] = "po_build" /\ pc'[p] = "po_write")) =>
          UNCHANGED cbLog

C13_AtWrite ==
    \A p \in Procs :
        (pc[p] \in {"po_write", "po_remove", "po_render"} /\ cfg.HasCB) =>
            /\ cbLog # <<>>
            /\ cbLog[Len(cbLog)].order = loc[p].order
            /\ cbLog[Len(cbLog)].msg = loc[p].msg

\* C13: a placement of a non-empty cart that gets to the write of the order
\* file has called cfg.OrderPlaced, when it is set, exactly once: in the one
\* step after the payment switch, with the order the write is then handed,
\* while the order file is not yet written and the cart file is still there;
\* no other step calls it (none of an empty-cart placement); and after the
\* call the handler always goes on to the write, which only a failure of the
\* storage keeps from creating the order file.
C13_CallbackOnce == []C13_AtWrite /\ [][C13_Step]_vars

\* A placement returned its Ok reply in a store with a callback, which was
\* called once, with the order now in the order file.
C13_Witness ==
    /\ last.kind = "placeorder" /\ last.status = "Ok"
    /\ last.data.tmpl = "orderplaced"
    /\ cfg.HasCB /\ Len(cbLog) = 1
    /\ cbLog[1].order = orderFiles[last.uid][last.id]

\* The placement that made call i of the callback has not returned yet: it is
\* the latest call and its goroutine is still at the write of the order file.
C14_InProgress(i) ==
    /\ i = Len(cbLog)
    /\ \E p \in Procs : pc[p] = "po_write" /\ loc[p].order = cbLog[i].order

\* C14: every order handed to the order-placed callback is a persisted order
\* once the placement that handed it over has returned (order file ID exists
\* for its user), and no two calls of the callback carry the same user and
\* order id.
C14_CallbackOrdersPersisted ==
    /\ \A i \in 1..Len(cbLog) :
          LET o == cbLog[i].order
          IN ~C14_InProgress(i) => o.ID \in DOMAIN orderFiles[o.User]
    /\ \A i, j \in 1..Len(cbLog) :
          (cbLog[i].order.User = cbLog[j].order.User
           /\ cbLog[i].order.ID = cbLog[j].order.ID) => i = j

C15_Step ==
    \A p \in Procs :
        (req[p].kind = "placeorder" /\ pc[p] # "idle" /\ pc'[p] = "idle"
         /\ last'.status = "Error") =>
            LET u == req[p].uid
            IN /\ DOMAIN orderFiles'[u] = loc[p].preIDs
               /\ UNCHANGED cartFile
               /\ loc[p].hadItems =>
                     (CartExists(u) /\ cartFile[u] = loc[p].cart)

\* C15: when handlePlaceOrder returns an error, the user's persisted state is
\* what it was when the handler took the lock: the order files are those that
\* existed then, and the cart file is the cart the handler read.
C15_ErrorLeavesStateAlone == [][C15_Step]_vars

\* No add-to-cart has written user u's cart since it was last removed.
C16_NoAddSince(u) == \A S \in PathSKUs : adds[u][S] = 0

C16_Step ==
    \A q \in Procs :
        LET u == req[q].uid
        IN /\ (pc[q] = "po_read" /\ Steps(q) /\ nfail' = 0
               /\ last.kind = "placeorder" /\ last.uid = u
               /\ last.status = "Ok" /\ last.data.tmpl = "orderplaced"
               /\ C16_NoAddSince(u)) =>
                  /\ pc'[q] = "idle"
                  /\ last'.status = "Ok" /\ last'.data.tmpl = "text"
                  /\ last'.data.ctx = "No items in order"
                  /\ UNCHANGED <<cartFile, orderFiles, placed>>
           /\ (pc[q] = "po_remove" /\ Steps(q) /\ nfail' = 0) =>
                  /\ ~(u \in DOMAIN cartFile')
                  /\ \A S \in PathSKUs : adds'[u][S] = 0

C16_OneOrderPerCart ==
    nfail = 0 =>
        \A u \in Users : \A i, j \in DOMAIN orderFiles[u] :
            (orderFiles[u][i].PlacedTS > 0 /\ orderFiles[u][j].PlacedTS > 0
             /\ orderFiles[u][i].Cart = orderFiles[u][j].Cart) => i = j

\* C16: without failures, of the place-order requests of one user that run
\* concurrently against one non-empty cart, the one that takes the lock first
\* writes the order and removes the cart, and one that was waiting meanwhile
\* (no add-to-cart having written the cart since) reads no items, returns "No
\* items in order" and writes nothing; no two orders of a user are snapshots
\* of the same cart.
C16_ConcurrentPlacements == []C16_OneOrderPerCart /\ [][C16_Step]_vars

\* A placement has returned its Ok reply while a second placement of the same
\* user, received before that return, has just taken the lock.
C16_Witness ==
    \E q \in Procs :
        /\ pc[q] = "po_read" /\ nfail = 0
        /\ last.kind = "placeorder" /\ last.uid = req[q].uid
        /\ last.status = "Ok" /\ last.data.tmpl = "orderplaced"
        /\ Len(placed[last.uid]) = last.id
        /\ ~CartExists(last.uid)

\* The goroutine has a request and has not yet taken the store lock.
WaitsForLock(p) ==
    pc[p] \in {"index", "product", "cart", "addtocart", "placeorder", "orders"}

C17_LockInv ==
    /\ mtx \in {0} \cup Procs
    /\ \A p \in Procs : mtx = p <=> InCS(p)
    /\ \A p, q \in Procs : (InCS(p) /\ InCS(q)) => p = q
    /\ (\A p \in Procs : pc[p] = "idle") => mtx = 0

C17_Step ==
    \A p \in Procs :
        (pc[p] # "idle" /\ pc'[p] = "idle") => (mtx' # p /\ mtx' \in {0, mtx})

\* C17: the store lock is held by exactly the one handler that is between its
\* Lock and its Unlock, every return of a handler, with a reply or an error,
\* leaves the lock released by it, and the lock is free when no handler runs;
\* and, storage, renderer, payment providers and callback returning, every
\* request received is eventually answered and every handler waiting for the
\* lock eventually holds it.
C17_LockReleased ==
    /\ []C17_LockInv
    /\ [][C17_Step]_vars
    /\ \A p \in Procs : (pc[p] # "idle") ~> (pc[p] = "idle")
    /\ \A p \in Procs : WaitsForLock(p) ~> (mtx = p)

\* A placement has returned the error of a failed order write, and a handler
\* that was received before that return now holds the lock.
C17_Witness ==
    \E p \in Procs :
        /\ mtx = p /\ InCS(p)
        /\ last.kind = "placeorder" /\ last.status = "Error"
        /\ last.ioFail = "write"

C18_Step ==
    \A p \in Procs :
        LET A == req[p].uid
        IN /\ (pc[p] # "idle" /\ Steps(p)) =>
                  \A B \in Users \ {A} :
                      /\ (B \in DOMAIN cartFile') <=> (B \in DOMAIN cartFile)
                      /\ B \in DOMAIN cartFile => cartFile'[B] = cartFile[B]
                      /\ orderFiles'[B] = orderFiles[B]
           /\ (pc[p] = "po_write" /\ pc'[p] = "po_remove") =>
                  /\ DOMAIN orderFiles'[A] =
                         DOMAIN orderFiles[A]
                             \cup {SetMax(DOMAIN orderFiles[A]) + 1}
                  /\ DOMAIN orderFiles[A] = {} => DOMAIN orderFiles'[A] = {1}

\* C18: a step of a handler serving user A leaves the cart file and the
\* order files of every other user B as they were (not created, not changed,
\* not removed), and the id of the order file a placement writes for A is one
\* more than the highest id among A's own order files: 1 for A's first order,
\* whatever orders the other users have.
C18_PerUserScope ==
    /\ [](\A u \in Users : DOMAIN orderFiles[u] # {} => 1 \in DOMAIN orderFiles[u])
    /\ [][C18_Step]_vars

\* User u2 placed its first order, with id 1, in a store where u1 has an
\* order and a cart of its own.
C18_Witness ==
    /\ DOMAIN orderFiles["u1"] = {1}
    /\ CartExists("u1")
    /\ DOMAIN orderFiles["u2"] = {1}
    /\ orderFiles["u2"][1].User = "u2"
    /\ last.kind = "placeorder" /\ last.uid = "u2" /\ last.status = "Ok"

C19_Step ==
    \A p \in Procs :
        LET u == req[p].uid
        IN /\ (pc[p] = "po_read" /\ pc'[p] = "po_last") =>
                  /\ CartExists(u) /\ loc'[p].cart = cartFile[u]
                  /\ Len(loc'[p].cart.Items) > 0
           /\ (pc[p] = "po_write" /\ pc'[p] = "po_remove") =>
                  LET o == orderFiles'[u][loc[p].id]
                  IN /\ o.Cart = loc[p].cart
                     /\ CartExists(u) /\ o.Cart = cartFile[u]
                     /\ Len(o.Cart.Items) > 0
                     /\ \A i \in 1..Len(o.Cart.Items) :
                            o.Cart.Items[i].Quantity > 0
                     /\ o.User = u
                     /\ o.Status = "placed"

\* C19: the order a placement writes embeds the cart the placement read
\* under the lock, item for item (same SKUs, same quantities, same sequence),
\* which is still the user's cart file at the write and has at least one
\* item; its User is the requesting user and its Status is placed; and so is
\* every order file: at least one item, the user of its directory, placed.
C19_OrderIsCartSnapshot ==
    /\ [](\A u \in Users : \A id \in DOMAIN orderFiles[u] :
             /\ Len(orderFiles[u][id].Cart.Items) > 0
             /\ orderFiles[u][id].User = u
             /\ orderFiles[u][id].Status = "placed")
    /\ [][C19_Step]_vars

\* An order written by this run with the two items of the cart, A then B.
C19_Witness ==
    \E u \in Users : \E id \in DOMAIN orderFiles[u] :
        /\ orderFiles[u][id].PlacedTS > 0
        /\ orderFiles[u][id].Cart.Items =
               <<[Product |-> products["A"], Quantity |-> 1],
                 [Product |-> products["B"], Quantity |-> 1]>>

C20_Step ==
    \A p \in Procs :
        LET u == req[p].uid
        IN /\ (req[p].kind = "orders" /\ Steps(p)) =>
                  UNCHANGED <<cartFile, orderFiles, cbLog, placed, adds>>
           /\ (pc[p] = "orders_list" /\ Steps(p)) =>
                  /\ pc'[p] = "idle"
                  /\ \/ /\ last'.status = "Ok" /\ last'.err = ""
                        /\ last'.data.tmpl = "orders"
                        /\ last'.unreadable \subseteq DOMAIN orderFiles[u]
                        /\ DOMAIN last'.data.ctx =
                               DOMAIN orderFiles[u] \ last'.unreadable
                        /\ \A i \in DOMAIN last'.data.ctx :
                               last'.data.ctx[i] = orderFiles[u][i]
                     \/ /\ last'.status = "Error"
                        /\ last'.err \in {"readdir", "render"}
                        /\ last'.unreadable = {}
                  /\ DOMAIN orderFiles[u] = {} => last'.err # "readdir"

\* C20: no step of handleOrders changes a cart file or an order file; the
\* handler returns the Ok reply whose listing holds exactly the user's order
\* files that could be read, each with its content (none when the user has
\* no order directory), or else the error of os.ReadDir or of the renderer:
\* an order file that cannot be read is left out and is never the cause of an
\* error, and a missing directory is not an error of os.ReadDir.
C20_OrdersListing == [][C20_Step]_vars

\* A listing returned Ok for a user with orders 1 and 2, of which order 1
\* could not be read: it lists order 2 alone.
C20_Witness ==
    /\ last.kind = "orders" /\ last.status = "Ok"
    /\ last.data.tmpl = "orders"
    /\ DOMAIN orderFiles[last.uid] = {1, 2}
    /\ last.unreadable = {1}
    /\ DOMAIN last.data.ctx = {2}
====
